---- MODULE Spec2Model ----
(***************************************************************************)
(* State-machine model of the two Real Digital drivers:                    *)
(*   drivers/gpu/drm/xilinx/rd_drm_hdmi.c       (DRM HDMI encoder slave)   *)
(*   drivers/char/realdigital/axi_lite_7seg_of.c (UIO 7-segment driver)    *)
(***************************************************************************)
EXTENDS Integers, Sequences, FiniteSets, TLC

VARIABLES
    of_node,        \* device-tree node of the HDMI encoder (fixed input)
    pstate,         \* platform device: "unbound", "bound", "removed"
    drvdata,        \* platform_get_drvdata(pdev): NULL or "dp"
    dp,             \* the devm_kzalloc'ed struct rd_drm_hdmi
    slave,          \* struct drm_encoder_slave handed to encoder_init
    adapter_refs,   \* references on the I2C adapter taken and not yet put
    log,            \* kernel log: sequence of DRM_INFO records
    inits,          \* number of rd_drm_hdmi_encoder_init calls made
    suspended,      \* system sleep state as seen by the dev_pm_ops
    resumes,        \* number of rd_drm_hdmi_pm_resume invocations
    hotplug,        \* number of drm_helper_hpd_irq_event calls delivered
    null_deref,     \* a NULL pointer has been dereferenced
    op,             \* the operation last invoked, with its inputs
    ret,            \* its return value ("none" when it did not return)
    probed_modes,   \* connector->probed_modes as left by the last get_modes
    edid_prop,      \* connector EDID blob property
    seg,            \* 7-segment platform device and its kernel resources
    seg_op,         \* last 7-segment driver operation, with its inputs
    seg_ret         \* its return value

hdmi_vars ==
    <<of_node, pstate, drvdata, dp, slave, adapter_refs, log, inits, suspended,
      resumes, hotplug, null_deref, op, ret, probed_modes, edid_prop>>

seg_vars ==
    <<seg, seg_op, seg_ret>>

vars ==
    <<hdmi_vars, seg_vars>>

NULL ==
    "NULL"

(* ------------------------------ bounds --------------------------------- *)

MaxInits ==
    2

MaxResumes ==
    2

MaxSegProbes ==
    2

(* --------------------------- program constants ------------------------- *)

DEF_PIXCLK ==
    150000

DEF_MAX_HORZ ==
    1920

DEF_MAX_VERT ==
    1080

DEF_PREF_HORZ ==
    1280

DEF_PREF_VERT ==
    720

ENOMEM ==
    12

EBUSY ==
    16

EINVAL ==
    22

ENODATA ==
    61

(* A 32-bit value is kept as its two's-complement bit pattern, so a u32 above *)
(* INT_MAX is a negative integer here and converting between u32 and int     *)
(* changes nothing. U32Gt is the unsigned comparison a > b that C makes when *)
(* an int meets a u32.                                                       *)
U32Gt(a, b) ==
    IF (a < 0) = (b < 0) THEN a > b ELSE a < 0

(* mode->flags bits tested by rd_drm_hdmi_mode_valid *)
DRM_MODE_FLAG_INTERLACE ==
    16

DRM_MODE_FLAG_DBLCLK ==
    4096

DRM_MODE_FLAG_3D_MASK ==
    507904

RECURSIVE BitAnd(_, _)
BitAnd(a, b) ==
    IF a = 0 \/ b = 0
    THEN 0
    ELSE (IF a % 2 = 1 /\ b % 2 = 1 THEN 1 ELSE 0) + 2 * BitAnd(a \div 2, b \div 2)

(* ------------------------------ device tree ---------------------------- *)

PropNames ==
    { "realdigital,max-pclock", "realdigital,max-horz-res", "realdigital,max-vert-res",
      "realdigital,pref-horz-res", "realdigital,pref-vert-res" }

(* A property is absent, or present with a value of zero or more u32 cells. *)
Absent ==
    [present |-> FALSE, cells |-> <<>>]

Empty ==
    [present |-> TRUE, cells |-> <<>>]

Cell(v) ==
    [present |-> TRUE, cells |-> <<v>>]

PropValues(name) ==
    CASE name = "realdigital,max-pclock"    -> {Absent, Empty, Cell(100000)}
      [] name = "realdigital,max-horz-res"  -> {Absent, Cell(320), Cell(1024)}
      [] name = "realdigital,max-vert-res"  -> {Absent, Cell(0), Cell(768)}
      [] name = "realdigital,pref-horz-res" -> {Absent, Cell(1024)}
      [] name = "realdigital,pref-vert-res" -> {Absent, Cell(768)}

(* realdigital,i2c-edid: no phandle, a phandle to a node with no registered *)
(* adapter, or a phandle to a node with a registered adapter.               *)
DeviceTrees ==
    { [i2c_edid |-> i, props |-> p] :
        i \in {"absent", "noadapter", "adapter"},
        p \in { f \in [PropNames -> UNION {PropValues(k) : k \in PropNames}] :
                  \A k \in PropNames : f[k] \in PropValues(k) } }

of_property_read_u32(node, name) ==
    IF name \notin DOMAIN node.props \/ ~node.props[name].present
    THEN [ret |-> -EINVAL, val |-> 0]
    ELSE IF Len(node.props[name].cells) = 0
    THEN [ret |-> -ENODATA, val |-> 0]
    ELSE [ret |-> 0, val |-> node.props[name].cells[1]]

(* --------------------------- rd_drm_hdmi.c ----------------------------- *)

(* devm_kzalloc returns zeroed memory *)
ZeroDp ==
    [ encoder  |-> NULL,
      dev      |-> NULL,
      config   |-> [max_pclock |-> 0, max_horz_res |-> 0, max_vert_res |-> 0,
                    pref_horz_res |-> 0, pref_vert_res |-> 0],
      i2c_hdmi |-> NULL ]

NullMode ==
    [null |-> TRUE, clock |-> 0, hdisplay |-> 0, vdisplay |-> 0, flags |-> 0]

Modes ==
    { [null |-> FALSE, clock |-> c, hdisplay |-> h, vdisplay |-> v, flags |-> f] :
        c \in {100000, 100001, 150001},
        h \in {320, 1024, 1025, 1921},
        v \in {768, 769, 1081},
        f \in {0, 1, DRM_MODE_FLAG_INTERLACE, DRM_MODE_FLAG_DBLCLK, 32768,
               DRM_MODE_FLAG_INTERLACE + DRM_MODE_FLAG_DBLCLK} }

(* mutant: the resolution test moved ahead of the clock test *)
mode_valid_resolution_first(d, mode) ==
    IF mode.null
    THEN "MODE_BAD"
    ELSE IF U32Gt(mode.hdisplay, d.config.max_horz_res)
            \/ U32Gt(mode.vdisplay, d.config.max_vert_res)
    THEN "MODE_PANEL"
    ELSE IF U32Gt(mode.clock, d.config.max_pclock)
    THEN "MODE_CLOCK_HIGH"
    ELSE IF BitAnd(mode.flags, DRM_MODE_FLAG_INTERLACE) # 0
    THEN "MODE_NO_INTERLACE"
    ELSE IF BitAnd(mode.flags, DRM_MODE_FLAG_DBLCLK + DRM_MODE_FLAG_3D_MASK) # 0
    THEN "MODE_BAD"
    ELSE "MODE_OK"

rd_drm_hdmi_mode_valid(d, mode) ==
    LET max_pclock == d.config.max_pclock
    IN  IF mode.null
        THEN "MODE_BAD"
        ELSE IF U32Gt(mode.clock, max_pclock)
        THEN "MODE_CLOCK_HIGH"
        ELSE IF U32Gt(mode.hdisplay, d.config.max_horz_res)
                \/ U32Gt(mode.vdisplay, d.config.max_vert_res)
        THEN "MODE_PANEL"
        ELSE IF BitAnd(mode.flags, DRM_MODE_FLAG_INTERLACE) # 0
        THEN "MODE_NO_INTERLACE"
        ELSE IF BitAnd(mode.flags, DRM_MODE_FLAG_DBLCLK + DRM_MODE_FLAG_3D_MASK) # 0
        THEN "MODE_BAD"
        ELSE "MODE_OK"

(* mutant: the sense of the drm_probe_ddc test inverted *)
detect_probe_inverted(d, ddc) ==
    IF d.i2c_hdmi # NULL
    THEN IF ~ddc THEN "connector_status_connected" ELSE "connector_status_disconnected"
    ELSE "connector_status_unknown"

rd_drm_hdmi_detect(d, ddc) ==
    IF d.i2c_hdmi # NULL
    THEN IF ddc THEN "connector_status_connected" ELSE "connector_status_disconnected"
    ELSE "connector_status_unknown"

(* ---- DRM core helpers used by get_modes ---- *)

(* drm_dmt_modes, abridged: display size and vertical refresh *)
drm_dmt_modes ==
    << [hdisplay |-> 640,  vdisplay |-> 480,  vrefresh |-> 60],
       [hdisplay |-> 640,  vdisplay |-> 480,  vrefresh |-> 85],
       [hdisplay |-> 800,  vdisplay |-> 600,  vrefresh |-> 60],
       [hdisplay |-> 1024, vdisplay |-> 768,  vrefresh |-> 60],
       [hdisplay |-> 1280, vdisplay |-> 720,  vrefresh |-> 60],
       [hdisplay |-> 1280, vdisplay |-> 1024, vrefresh |-> 60],
       [hdisplay |-> 1920, vdisplay |-> 1080, vrefresh |-> 60],
       [hdisplay |-> 2560, vdisplay |-> 1600, vrefresh |-> 60] >>

Probed(m, origin, pref) ==
    [hdisplay |-> m.hdisplay, vdisplay |-> m.vdisplay, vrefresh |-> m.vrefresh,
     preferred |-> pref, origin |-> origin]

drm_add_modes_noedid(hdisplay, vdisplay) ==
    LET h == IF hdisplay < 0 THEN 0 ELSE hdisplay
        v == IF vdisplay < 0 THEN 0 ELSE vdisplay
        Keep(m) == /\ ~(h # 0 /\ v # 0 /\ (m.hdisplay > h \/ m.vdisplay > v))
                   /\ ~(m.vrefresh > 61)
        kept == SelectSeq(drm_dmt_modes, Keep)
    IN  [i \in 1..Len(kept) |-> Probed(kept[i], "dmt", FALSE)]

drm_set_preferred_mode(modes, hpref, vpref) ==
    [i \in 1..Len(modes) |->
        IF modes[i].hdisplay = hpref /\ modes[i].vdisplay = vpref
        THEN [modes[i] EXCEPT !.preferred = TRUE]
        ELSE modes[i]]

(* What the monitor may answer over DDC: no EDID, or a block with its modes *)
NoEdid ==
    [null |-> TRUE, id |-> "none", modes |-> <<>>]

Edids ==
    { [null |-> FALSE, id |-> "hd",
       modes |-> << [hdisplay |-> 1920, vdisplay |-> 1080, vrefresh |-> 60, preferred |-> TRUE],
                    [hdisplay |-> 1280, vdisplay |-> 720,  vrefresh |-> 60, preferred |-> FALSE] >>],
      [null |-> FALSE, id |-> "vga",
       modes |-> << [hdisplay |-> 640, vdisplay |-> 480, vrefresh |-> 60, preferred |-> FALSE] >>],
      [null |-> FALSE, id |-> "bare", modes |-> <<>>] }

drm_add_edid_modes(edid) ==
    [i \in 1..Len(edid.modes) |-> Probed(edid.modes[i], "edid", edid.modes[i].preferred)]

(* mutant: a failed EDID read falls back to the synthesized table *)
get_modes_fallback(d, edid) ==
    IF d.i2c_hdmi # NULL /\ ~edid.null
    THEN [ret |-> Len(drm_add_edid_modes(edid)),
          probed |-> drm_add_edid_modes(edid),
          edid_prop |-> edid.id]
    ELSE [ret |-> Len(drm_add_modes_noedid(d.config.max_horz_res, d.config.max_vert_res)),
          probed |-> drm_set_preferred_mode(
                         drm_add_modes_noedid(d.config.max_horz_res, d.config.max_vert_res),
                         d.config.pref_horz_res, d.config.pref_vert_res),
          edid_prop |-> "unchanged"]

(* mutant: the preferred size bounds the table and the maximum is preferred *)
get_modes_fields_swapped(d, edid) ==
    IF d.i2c_hdmi # NULL
    THEN IF edid.null
         THEN [ret |-> 0, probed |-> <<>>, edid_prop |-> "unchanged"]
         ELSE [ret |-> Len(drm_add_edid_modes(edid)),
               probed |-> drm_add_edid_modes(edid),
               edid_prop |-> edid.id]
    ELSE [ret |-> Len(drm_add_modes_noedid(d.config.pref_horz_res, d.config.pref_vert_res)),
          probed |-> drm_set_preferred_mode(
                         drm_add_modes_noedid(d.config.pref_horz_res, d.config.pref_vert_res),
                         d.config.max_horz_res, d.config.max_vert_res),
          edid_prop |-> "unchanged"]

rd_drm_hdmi_get_modes(d, edid) ==
    IF d.i2c_hdmi # NULL
    THEN IF edid.null
         THEN [ret |-> 0, probed |-> <<>>, edid_prop |-> "unchanged"]
         ELSE [ret |-> Len(drm_add_edid_modes(edid)),
               probed |-> drm_add_edid_modes(edid),
               edid_prop |-> edid.id]
    ELSE [ret |-> Len(drm_add_modes_noedid(d.config.max_horz_res, d.config.max_vert_res)),
          probed |-> drm_set_preferred_mode(
                         drm_add_modes_noedid(d.config.max_horz_res, d.config.max_vert_res),
                         d.config.pref_horz_res, d.config.pref_vert_res),
          edid_prop |-> "unchanged"]

(* ---- device-tree parsing ---- *)

(* mutant: "ret <= 0" for "ret < 0", so a value that was read is discarded *)
read_u32_always_default(node, param, def) ==
    LET rd_param == "realdigital," \o param
        r == of_property_read_u32(node, rd_param)
    IN  IF r.ret <= 0
        THEN [val |-> def,
              info |-> << [msg |-> "No value, using default", param |-> rd_param, def |-> def] >>]
        ELSE [val |-> r.val, info |-> <<>>]

rd_of_read_u32(node, param, def) ==
    LET rd_param == "realdigital," \o param
        r == of_property_read_u32(node, rd_param)
    IN  IF r.ret < 0
        THEN [val |-> def,
              info |-> << [msg |-> "No value, using default", param |-> rd_param, def |-> def] >>]
        ELSE [val |-> r.val, info |-> <<>>]

rd_drm_hdmi_parse_of(d, node) ==
    LET i2c_node == node.i2c_edid # "absent"
        found    == node.i2c_edid = "adapter"
        i2c      == IF i2c_node THEN (IF found THEN "adapter" ELSE NULL) ELSE d.i2c_hdmi
        i2c_info == IF i2c_node /\ ~found
                    THEN << [msg |-> "HDMI I2C interface not found", param |-> "", def |-> 0] >>
                    ELSE <<>>
        pclk == rd_of_read_u32(node, "max-pclock", DEF_PIXCLK)
        maxh == rd_of_read_u32(node, "max-horz-res", DEF_MAX_HORZ)
        maxv == rd_of_read_u32(node, "max-vert-res", DEF_MAX_VERT)
        prfh == rd_of_read_u32(node, "pref-horz-res", DEF_PREF_HORZ)
        prfv == rd_of_read_u32(node, "pref-vert-res", DEF_PREF_VERT)
    IN  [ dp  |-> [d EXCEPT !.i2c_hdmi = i2c,
                            !.config = [max_pclock |-> pclk.val, max_horz_res |-> maxh.val,
                                        max_vert_res |-> maxv.val, pref_horz_res |-> prfh.val,
                                        pref_vert_res |-> prfv.val]],
          info |-> i2c_info \o pclk.info \o maxh.info \o maxv.info \o prfh.info \o prfv.info,
          got  |-> IF i2c_node /\ found THEN 1 ELSE 0,
          ret  |-> 0 ]

rd_drm_hdmi_encoder_init(d, node) ==
    rd_drm_hdmi_parse_of([d EXCEPT !.encoder = "&encoder->base"], node)

(* ------------------------ HDMI encoder: actions ------------------------ *)

Returned(v) ==
    [returned |-> TRUE, val |-> v, sym |-> ""]

ReturnedSym(name) ==
    [returned |-> TRUE, val |-> 0, sym |-> name]

NoReturn ==
    [returned |-> FALSE, val |-> 0, sym |-> ""]

Call(name) ==
    [name |-> name, ddc |-> FALSE, edid |-> NoEdid, mode |-> NullMode, logstart |-> 0]

HdmiInit ==
    /\ of_node \in DeviceTrees
    /\ pstate = "unbound"
    /\ drvdata = NULL
    /\ dp = ZeroDp
    /\ slave = [slave_priv |-> NULL, slave_funcs |-> NULL]
    /\ adapter_refs = 0
    /\ log = <<>>
    /\ inits = 0
    /\ suspended = FALSE
    /\ resumes = 0
    /\ hotplug = 0
    /\ null_deref = FALSE
    /\ op = Call("none")
    /\ ret = NoReturn
    /\ probed_modes = <<>>
    /\ edid_prop = "none"

(* The encoder callbacks run on a bound, initialised, awake encoder. *)
EncoderLive ==
    /\ pstate = "bound"
    /\ slave.slave_funcs # NULL
    /\ ~suspended
    /\ ~null_deref

rd_drm_hdmi_probe ==
    /\ pstate = "unbound"
    /\ \E alloc_ok \in BOOLEAN :
         IF alloc_ok
         THEN /\ dp' = [ZeroDp EXCEPT !.dev = "&pdev->dev"]
              /\ drvdata' = "dp"
              /\ pstate' = "bound"
              /\ ret' = Returned(0)
         ELSE /\ ret' = Returned(-ENOMEM)
              /\ UNCHANGED <<dp, drvdata, pstate>>
    /\ op' = Call("probe")
    /\ UNCHANGED <<of_node, slave, adapter_refs, log, inits, suspended, resumes,
                   hotplug, null_deref, probed_modes, edid_prop, seg_vars>>

EncoderInit ==
    /\ pstate = "bound"
    /\ ~suspended
    /\ ~null_deref
    /\ inits < MaxInits
    /\ LET r == rd_drm_hdmi_encoder_init(dp, of_node)
       IN  /\ dp' = r.dp
           /\ log' = log \o r.info
           /\ adapter_refs' = adapter_refs + r.got
           /\ ret' = Returned(r.ret)
    /\ slave' = [slave_priv |-> "dp", slave_funcs |-> "rd_drm_hdmi_encoder_funcs"]
    /\ inits' = inits + 1
    /\ op' = [Call("encoder_init") EXCEPT !.logstart = Len(log)]
    /\ UNCHANGED <<of_node, pstate, drvdata, suspended, resumes, hotplug, null_deref,
                   probed_modes, edid_prop, seg_vars>>

ModeValid ==
    /\ EncoderLive
    /\ \E mode \in Modes \cup {NullMode} :
         /\ ret' = ReturnedSym(rd_drm_hdmi_mode_valid(dp, mode))
         /\ op' = [Call("mode_valid") EXCEPT !.mode = mode]
    /\ UNCHANGED <<of_node, pstate, drvdata, dp, slave, adapter_refs, log, inits,
                   suspended, resumes, hotplug, null_deref, probed_modes, edid_prop,
                   seg_vars>>

Detect ==
    /\ EncoderLive
    /\ \E ddc \in BOOLEAN :
         /\ ret' = ReturnedSym(rd_drm_hdmi_detect(dp, ddc))
         /\ op' = [Call("detect") EXCEPT !.ddc = ddc]
    /\ UNCHANGED <<of_node, pstate, drvdata, dp, slave, adapter_refs, log, inits,
                   suspended, resumes, hotplug, null_deref, probed_modes, edid_prop,
                   seg_vars>>

GetModes ==
    /\ EncoderLive
    /\ \E edid \in Edids \cup {NoEdid} :
         LET r == rd_drm_hdmi_get_modes(dp, edid)
         IN  /\ ret' = Returned(r.ret)
             /\ probed_modes' = r.probed
             /\ edid_prop' = IF r.edid_prop = "unchanged" THEN edid_prop ELSE r.edid_prop
             /\ op' = [Call("get_modes") EXCEPT !.edid = edid]
    /\ UNCHANGED <<of_node, pstate, drvdata, dp, slave, adapter_refs, log, inits,
                   suspended, resumes, hotplug, null_deref, seg_vars>>

(* dpms, save, restore and mode_set do nothing; mode_fixup returns true *)
Inert ==
    /\ EncoderLive
    /\ \E name \in {"dpms", "save", "restore", "mode_fixup", "mode_set"} :
         /\ op' = Call(name)
         /\ ret' = IF name = "mode_fixup" THEN ReturnedSym("true") ELSE NoReturn
    /\ UNCHANGED <<of_node, pstate, drvdata, dp, slave, adapter_refs, log, inits,
                   suspended, resumes, hotplug, null_deref, probed_modes, edid_prop,
                   seg_vars>>

rd_drm_hdmi_pm_suspend ==
    /\ pstate = "bound"
    /\ ~suspended
    /\ ~null_deref
    /\ suspended' = TRUE
    /\ op' = Call("pm_suspend")
    /\ ret' = Returned(0)
    /\ UNCHANGED <<of_node, pstate, drvdata, dp, slave, adapter_refs, log, inits,
                   resumes, hotplug, null_deref, probed_modes, edid_prop, seg_vars>>

(* dp->encoder->dev is read through dp->encoder; when that is still NULL the *)
(* read is undefined: the kernel oopses, or the helper runs on a wild        *)
(* pointer and no drm_device of the host pipeline is notified.               *)
rd_drm_hdmi_pm_resume ==
    /\ pstate = "bound"
    /\ suspended
    /\ ~null_deref
    /\ resumes < MaxResumes
    /\ resumes' = resumes + 1
    /\ suspended' = FALSE
    /\ op' = Call("pm_resume")
    /\ IF dp.encoder # NULL
       THEN /\ hotplug' = hotplug + 1
            /\ ret' = Returned(0)
            /\ UNCHANGED null_deref
       ELSE /\ null_deref' = TRUE
            /\ hotplug' = hotplug
            /\ ret' \in {NoReturn, Returned(0)}
    /\ UNCHANGED <<of_node, pstate, drvdata, dp, slave, adapter_refs, log, inits,
                   probed_modes, edid_prop, seg_vars>>

(* remove returns 0; the driver core then drops drvdata and the devm memory *)
rd_drm_hdmi_remove ==
    /\ pstate = "bound"
    /\ ~suspended
    /\ ~null_deref
    /\ pstate' = "removed"
    /\ drvdata' = NULL
    /\ op' = Call("remove")
    /\ ret' = Returned(0)
    /\ UNCHANGED <<of_node, dp, slave, adapter_refs, log, inits, suspended, resumes,
                   hotplug, null_deref, probed_modes, edid_prop, seg_vars>>

(* ------------------------ axi_lite_7seg_of.c --------------------------- *)

(* NO_IRQ is ((unsigned int)(-1)) on 32-bit ARM *)
NO_IRQ ==
    -1

UIO_IRQ_NONE ==
    0

SegInputs ==
    [ alloc_ok    : BOOLEAN,          \* kzalloc succeeds
      addr_rc     : {0, -EINVAL},     \* of_address_to_resource
      region_free : BOOLEAN,          \* request_mem_region succeeds
      irq         : {0, 61},          \* irq_of_parse_and_map
      uio_rc      : {0, -ENOMEM} ]    \* uio_register_device

SegNoInput ==
    [alloc_ok |-> TRUE, addr_rc |-> 0, region_free |-> TRUE, irq |-> 0, uio_rc |-> 0]

(* The effect of one probe call: its return value and what it leaves behind *)
axi_lite_7seg_of_probe(in) ==
    LET info_irq == IF in.irq = NO_IRQ \/ in.irq = 0 THEN UIO_IRQ_NONE ELSE in.irq
        nothing  == [ret |-> 0, allocs |-> 0, frees |-> 0, requests |-> 0, releases |-> 0,
                     uio |-> FALSE, set_drvdata |-> FALSE, info_irq |-> UIO_IRQ_NONE]
    IN  IF ~in.alloc_ok
        THEN [nothing EXCEPT !.ret = -ENOMEM]
        ELSE IF in.addr_rc # 0
        THEN [nothing EXCEPT !.ret = in.addr_rc, !.allocs = 1, !.frees = 1]
        ELSE IF ~in.region_free
        THEN [nothing EXCEPT !.ret = -EBUSY, !.allocs = 1, !.frees = 1]
        ELSE IF in.uio_rc # 0
        (* goto failed_register leaves rc as of_address_to_resource set it *)
        THEN [nothing EXCEPT !.ret = in.addr_rc, !.allocs = 1, !.frees = 1,
                             !.requests = 1, !.releases = 1, !.info_irq = info_irq]
        ELSE [nothing EXCEPT !.ret = 0, !.allocs = 1, !.requests = 1, !.uio = TRUE,
                             !.set_drvdata = TRUE, !.info_irq = info_irq]

SegIdle ==
    /\ seg = [ bound |-> FALSE, drvdata |-> NULL, uio |-> FALSE, info_irq |-> UIO_IRQ_NONE,
               allocs |-> 0, frees |-> 0, requests |-> 0, releases |-> 0,
               probes |-> 0, fault |-> FALSE ]
    /\ seg_op = [name |-> "none", in |-> SegNoInput]
    /\ seg_ret = 0

(* The driver core binds the device when probe returns 0, and otherwise     *)
(* clears the driver data.                                                  *)
SegProbe ==
    /\ ~seg.bound
    /\ ~seg.fault
    /\ seg.probes < MaxSegProbes
    /\ \E in \in SegInputs :
         LET r == axi_lite_7seg_of_probe(in)
         IN  /\ seg' = [seg EXCEPT !.bound = (r.ret = 0),
                                   !.drvdata = IF r.ret = 0 /\ r.set_drvdata
                                               THEN "myinfo" ELSE NULL,
                                   !.uio = r.uio,
                                   !.info_irq = r.info_irq,
                                   !.allocs = @ + r.allocs,
                                   !.frees = @ + r.frees,
                                   !.requests = @ + r.requests,
                                   !.releases = @ + r.releases,
                                   !.probes = @ + 1]
             /\ seg_op' = [name |-> "probe", in |-> in]
             /\ seg_ret' = r.ret
    /\ UNCHANGED hdmi_vars

(* remove reads its record through the driver data. With the driver data    *)
(* NULL, &myinfo->info is a small non-NULL address and every access through *)
(* it is undefined: the kernel oopses in uio_unregister_device, or goes on   *)
(* to release whatever region the wild read names.                          *)
axi_lite_7seg_of_remove ==
    /\ seg.bound
    /\ ~seg.fault
    /\ IF seg.drvdata # NULL
       THEN /\ seg' = [seg EXCEPT !.bound = FALSE, !.drvdata = NULL, !.uio = FALSE,
                                  !.releases = @ + 1, !.frees = @ + 1]
            /\ seg_ret' = 0
       ELSE \E wild_release \in BOOLEAN :
              /\ seg' = [seg EXCEPT !.fault = TRUE,
                                    !.releases = IF wild_release THEN @ + 1 ELSE @]
              /\ seg_ret' = 0
    /\ seg_op' = [name |-> "remove", in |-> SegNoInput]
    /\ UNCHANGED hdmi_vars

Init ==
    /\ HdmiInit
    /\ SegIdle

Next ==
    \/ rd_drm_hdmi_probe
    \/ EncoderInit
    \/ Detect
    \/ GetModes
    \/ Inert
    \/ rd_drm_hdmi_pm_suspend
    \/ rd_drm_hdmi_pm_resume
    \/ rd_drm_hdmi_remove

Spec ==
    Init /\ [][Next]_vars

(* Mode validation, over every device tree that names no EDID bus and no  *)
(* preferred size (neither is read by rd_drm_hdmi_mode_valid).             *)
InitValid ==
    /\ Init
    /\ of_node.i2c_edid = "absent"
    /\ ~of_node.props["realdigital,pref-horz-res"].present
    /\ ~of_node.props["realdigital,pref-vert-res"].present

NextValid ==
    \/ rd_drm_hdmi_probe
    \/ EncoderInit
    \/ ModeValid

SpecValid ==
    InitValid /\ [][NextValid]_vars

(* The 7-segment driver alone, beside an HDMI encoder that is never probed *)
InitSeg ==
    /\ Init
    /\ of_node.i2c_edid = "absent"
    /\ \A k \in PropNames : ~of_node.props[k].present

NextSeg ==
    \/ SegProbe
    \/ axi_lite_7seg_of_remove

SpecSeg ==
    InitSeg /\ [][NextSeg]_vars

(* ------------------------------ properties ----------------------------- *)

(* C1: rd_drm_hdmi_mode_valid returns the result of the first matching rule  *)
(* in the order: mode absent -> MODE_BAD; clock > max_pclock ->              *)
(* MODE_CLOCK_HIGH; hdisplay or vdisplay above its maximum -> MODE_PANEL;    *)
(* interlace flag -> MODE_NO_INTERLACE; double-clock or any 3D flag ->       *)
(* MODE_BAD; otherwise MODE_OK. MODE_OK is returned exactly when the mode is *)
(* present, within clock and resolution limits and carries none of those    *)
(* flags.                                                                    *)
C1_ModeValidFirstMatch ==
    op.name = "mode_valid" =>
        LET m          == op.mode
            c          == dp.config
            absent     == m.null
            clock_high == m.clock > c.max_pclock
            too_large  == m.hdisplay > c.max_horz_res \/ m.vdisplay > c.max_vert_res
            interlace  == (m.flags \div 16) % 2 = 1
            dbl_or_3d  == (m.flags \div 4096) % 2 = 1 \/ (m.flags \div 16384) % 32 # 0
        IN  /\ ret.returned
            /\ absent => ret.sym = "MODE_BAD"
            /\ (~absent /\ clock_high) => ret.sym = "MODE_CLOCK_HIGH"
            /\ (~absent /\ ~clock_high /\ too_large) => ret.sym = "MODE_PANEL"
            /\ (~absent /\ ~clock_high /\ ~too_large /\ interlace)
                   => ret.sym = "MODE_NO_INTERLACE"
            /\ (~absent /\ ~clock_high /\ ~too_large /\ ~interlace /\ dbl_or_3d)
                   => ret.sym = "MODE_BAD"
            /\ (ret.sym = "MODE_OK")
                   <=> (~absent /\ ~clock_high /\ ~too_large /\ ~interlace /\ ~dbl_or_3d)

(* C1 witness: a mode that is too fast, too large, interlaced and            *)
(* double-clocked at once is rejected for its clock.                        *)
C1_Witness ==
    /\ op.name = "mode_valid"
    /\ ~op.mode.null
    /\ op.mode.clock > dp.config.max_pclock
    /\ op.mode.hdisplay > dp.config.max_horz_res
    /\ op.mode.flags = DRM_MODE_FLAG_INTERLACE + DRM_MODE_FLAG_DBLCLK
    /\ dp.config.max_pclock > 0
    /\ ret.sym = "MODE_CLOCK_HIGH"

NoChannelGetModes ==
    /\ op.name = "get_modes"
    /\ dp.i2c_hdmi = NULL

C3_NeverMixesSources ==
    op.name = "get_modes" =>
        /\ dp.i2c_hdmi # NULL =>
             /\ \A i \in 1..Len(probed_modes) : probed_modes[i].origin = "edid"
             /\ Len(probed_modes) = Len(op.edid.modes)
             /\ \A i \in 1..Len(probed_modes) :
                  /\ probed_modes[i].preferred = op.edid.modes[i].preferred
                  /\ probed_modes[i].hdisplay = op.edid.modes[i].hdisplay
                  /\ probed_modes[i].vdisplay = op.edid.modes[i].vdisplay
             /\ op.edid.null => (probed_modes = <<>> /\ ret = Returned(0))
        /\ dp.i2c_hdmi = NULL =>
             \A i \in 1..Len(probed_modes) : probed_modes[i].origin = "dmt"

(* C3 witness: the EDID read fails on an encoder whose envelope would have   *)
(* synthesized modes, and the call returns none.                             *)
C3_Witness ==
    /\ op.name = "get_modes"
    /\ dp.i2c_hdmi # NULL
    /\ op.edid.null
    /\ dp.config.max_horz_res = DEF_MAX_HORZ
    /\ dp.config.max_vert_res = DEF_MAX_VERT
    /\ probed_modes = <<>>
    /\ ret = Returned(0)

(* C4: every detect call returns unknown when no channel is held, connected  *)
(* when a channel is held and this call's DDC probe succeeds, disconnected   *)
(* when it fails; it builds no mode list and sends no hot-plug notification. *)
C4_DetectFromProbeOnly ==
    [][ op'.name = "detect" =>
          /\ ret'.returned
          /\ ret'.sym = IF dp.i2c_hdmi = NULL THEN "connector_status_unknown"
                        ELSE IF op'.ddc THEN "connector_status_connected"
                        ELSE "connector_status_disconnected"
          /\ probed_modes' = probed_modes
          /\ edid_prop' = edid_prop
          /\ hotplug' = hotplug
          /\ dp' = dp ]_vars

(* C4 witness: a failed probe right after a call that reported connected *)
C4_Witness ==
    /\ op.name = "detect"
    /\ dp.i2c_hdmi # NULL
    /\ ~op.ddc
    /\ ret.sym = "connector_status_disconnected"
    /\ of_node.i2c_edid = "adapter"

(* C5: every resume sends exactly one hot-plug notification and returns 0,   *)
(* suspend sends none: notifications sent = resumes performed.               *)
C5_ResumeNotifiesOnce ==
    /\ hotplug = resumes
    /\ op.name = "pm_resume" => ret = Returned(0)
    /\ op.name = "pm_suspend" => ret = Returned(0)

(* C6: configuration resolution returns 0 and sets each of the five fields   *)
(* to the stored u32 when its key is readable, else to its default with      *)
(* exactly one diagnostic for that key; no diagnostic for a readable key.    *)
C6_ResolveDefaults ==
    op.name = "encoder_init" =>
        LET Readable(k) == of_node.props[k].present /\ Len(of_node.props[k].cells) > 0
            Diags(k)    == Cardinality({ i \in (op.logstart + 1)..Len(log) :
                                           /\ log[i].msg = "No value, using default"
                                           /\ log[i].param = k })
            Resolved(k, field, def) ==
                IF Readable(k)
                THEN field = of_node.props[k].cells[1] /\ Diags(k) = 0
                ELSE field = def /\ Diags(k) = 1
        IN  /\ ret = Returned(0)
            /\ Resolved("realdigital,max-pclock", dp.config.max_pclock, 150000)
            /\ Resolved("realdigital,max-horz-res", dp.config.max_horz_res, 1920)
            /\ Resolved("realdigital,max-vert-res", dp.config.max_vert_res, 1080)
            /\ Resolved("realdigital,pref-horz-res", dp.config.pref_horz_res, 1280)
            /\ Resolved("realdigital,pref-vert-res", dp.config.pref_vert_res, 720)
            /\ Cardinality({ i \in (op.logstart + 1)..Len(log) :
                               log[i].msg = "No value, using default" })
                 = Cardinality({ k \in PropNames : ~Readable(k) })

(* C6 witness: a node with none of the keys resolves to the defaults with    *)
(* five diagnostics.                                                         *)
C6_Witness ==
    /\ op.name = "encoder_init"
    /\ \A k \in PropNames : ~of_node.props[k].present
    /\ dp.config = [max_pclock |-> 150000, max_horz_res |-> 1920, max_vert_res |-> 1080,
                    pref_horz_res |-> 1280, pref_vert_res |-> 720]
    /\ Len(log) - op.logstart = 5

(* C7: after configuration resolution all five envelope fields are positive, *)
(* whatever u32 the configuration store holds.                               *)
C7_EnvelopePositive ==
    inits >= 1 =>
        /\ dp.config.max_pclock # 0
        /\ dp.config.max_horz_res # 0
        /\ dp.config.max_vert_res # 0
        /\ dp.config.pref_horz_res # 0
        /\ dp.config.pref_vert_res # 0

(* C8: the adapter reference is taken at most once per instance and is no    *)
(* longer held once the instance has been removed.                           *)
C8_AdapterReleased ==
    /\ adapter_refs <= 1
    /\ pstate = "removed" => adapter_refs = 0

(* C9: whenever resume can be invoked (the device is bound) dp->encoder has  *)
(* been set, so resume never dereferences a NULL encoder.                    *)
C9_ResumeEncoderSet ==
    /\ pstate = "bound" => dp.encoder # NULL
    /\ ~null_deref

(* C10: the 7-segment probe returns 0 only with the UIO device registered    *)
(* and the driver data set, every failure path returns non-zero having       *)
(* released what it acquired, so remove only runs on valid driver data and   *)
(* the memory region is released exactly once.                               *)
C10_SegProbeContract ==
    /\ seg_op.name = "probe" =>
         /\ (seg_ret = 0) <=> (seg.uio /\ seg.drvdata # NULL)
         /\ (seg_ret # 0) => (seg.allocs = seg.frees /\ seg.requests = seg.releases)
    /\ seg.bound => seg.drvdata # NULL
    /\ ~seg.fault
    /\ seg.releases <= seg.requests

====
